---- MODULE Spec2Model ----
(***************************************************************************)
(* Model of api_monitor.py: the monitoring loop (monitor_api), the SQLite  *)
(* store (init_db, log_metric), the dashboard queries (dashboard) and the  *)
(* process lifecycle (main, signal_handler).                               *)
(*                                                                         *)
(* Time is counted in integer clock units; response_time is a difference   *)
(* of two clock reads.  AVG() is kept as the exact fraction sum/count.     *)
(***************************************************************************)
EXTENDS Integers, Sequences, FiniteSets, TLC

\* ------------------------------------------------------------------ bounds
MaxRows == 3        \* no new probe starts once the table holds this many rows
MaxClock == 1       \* the wall clock takes the values 0..MaxClock
MaxTotal == 10      \* rows of a metrics.db left by earlier runs, for SpecDash

\* ------------------------------------------------------- program constants
RECENT_LIMIT == 50          \* LIMIT 50 of the recent-checks query
FAIL_STATUS == -1           \* status_code written by the except branch
SUCCESS == 1                \* success written by the try branch
FAILURE == 0                \* success written by the except branch
PERCENT == 100              \* failures / total * 100 in the template
UNSTABLE_THRESHOLD == 20    \* {% if error_rate > 20 %} in the template

NULL == "NULL"              \* SQL NULL / Python None in a TEXT column

API_ENDPOINTS ==
    << [url |-> "posts",    method |-> "GET"],
       [url |-> "comments", method |-> "GET"],
       [url |-> "users",    method |-> "GET"] >>

NumEndpoints == Len(API_ENDPOINTS)

\* str.upper() on the configured method
Upper(s) == CASE s = "get"  -> "GET"
              [] s = "post" -> "POST"
              [] OTHER      -> s

\* What requests.request can do: return a response with some status code (here
\* one that HTTP counts as an error), or raise; str(e) of the exception raised
\* is its message.
StatusCodes == {404}
TransportErrors == {"timed out"}
\* What sqlite3 can raise inside log_metric.
StoreErrors == {"database is locked"}

Min(a, b) == IF a < b THEN a ELSE b

\* -------------------------------------------------------------------- state
VARIABLES
    clock,          \* the wall clock read by time.time() and datetime.utcnow()
    mainPc,         \* position of main()
    tableExists,    \* metrics.db holds the table "metrics"
    metrics_table,  \* the committed rows of table metrics, in insertion order
    probe_log,      \* history: for each committed row, the probe that wrote it
    monPc,          \* position of the monitor thread inside monitor_api
    idx,            \* index of `api` in the for loop over API_ENDPOINTS
    cycle,          \* history: number of the current pass of the while loop
    start,          \* local `start`
    response,       \* outcome of requests.request for the current probe
    elapsed,        \* local `elapsed`
    exc,            \* str(e) of the exception bound in the except branch
    pending,        \* row INSERTed by log_metric's connection, not yet committed
    dashPc,         \* position of a dashboard() request
    dash_metrics,   \* local `metrics` of dashboard()
    dash_summary,   \* local `summary` of dashboard()
    page            \* summary table of the page rendered for the last request

vars == << clock, mainPc, tableExists, metrics_table, probe_log, monPc, idx,
           cycle, start, response, elapsed, exc, pending, dashPc,
           dash_metrics, dash_summary, page >>

storeVars == << tableExists, metrics_table, probe_log >>
monVars == << monPc, idx, cycle, start, response, elapsed, exc, pending >>
dashVars == << dashPc, dash_metrics, dash_summary, page >>

NoResponse == [returned |-> FALSE, status_code |-> 0]

\* ------------------------------------------------------------------- store
RowsOf(tbl) == { tbl[i] : i \in DOMAIN tbl }

RECURSIVE MaxId(_)
MaxId(rows) ==
    IF rows = {} THEN 0
    ELSE LET r == CHOOSE x \in rows : TRUE
             m == MaxId(rows \ {r})
         IN  IF r.id > m THEN r.id ELSE m

\* id INTEGER PRIMARY KEY AUTOINCREMENT: one more than the largest id in use
AutoIncrement(tbl) == MaxId(RowsOf(tbl)) + 1

\* CREATE TABLE IF NOT EXISTS metrics (...): the rows a table keeps
CreateTable_Dropping(exists, tbl) == << >>
CreateTableIfNotExists(exists, tbl) == IF exists THEN tbl ELSE << >>

log_metric_StartTime(endpoint, method, response_time, status_code, success, error_message) ==
    [ id            |-> AutoIncrement(metrics_table),
      timestamp     |-> start,
      endpoint      |-> endpoint,
      method        |-> method,
      response_time |-> response_time,
      status_code   |-> status_code,
      success       |-> success,
      error_message |-> error_message ]

\* The row built by the INSERT of log_metric; timestamp is utcnow() at the call
log_metric(endpoint, method, response_time, status_code, success, error_message) ==
    [ id            |-> AutoIncrement(metrics_table),
      timestamp     |-> clock,
      endpoint      |-> endpoint,
      method        |-> method,
      response_time |-> response_time,
      status_code   |-> status_code,
      success       |-> success,
      error_message |-> error_message ]

\* Arguments of the two calls of log_metric in monitor_api
TryRow ==
    log_metric(API_ENDPOINTS[idx].url, Upper(API_ENDPOINTS[idx].method),
               elapsed, response.status_code, SUCCESS, NULL)

ExceptRow_NoMessage ==
    log_metric(API_ENDPOINTS[idx].url, Upper(API_ENDPOINTS[idx].method),
               elapsed, FAIL_STATUS, FAILURE, NULL)
ExceptRow ==
    log_metric(API_ENDPOINTS[idx].url, Upper(API_ENDPOINTS[idx].method),
               elapsed, FAIL_STATUS, FAILURE, exc)

\* conn.commit(): the pending row joins the table
Commit_Forgotten(tbl, rows) == tbl
Commit(tbl, rows) == tbl \o rows

\* The rows another connection reads: committed ones only
VisibleRows_Dirty == RowsOf(metrics_table \o pending)
VisibleRows == RowsOf(metrics_table)

\* ----------------------------------------------------------------- queries
RECURSIVE OrderByIdAsc(_)
OrderByIdAsc(rows) ==
    IF rows = {} THEN << >>
    ELSE LET low == CHOOSE r \in rows : \A q \in rows : r.id <= q.id
         IN  << low >> \o OrderByIdAsc(rows \ {low})

\* ORDER BY id DESC
RECURSIVE OrderByIdDesc(_)
OrderByIdDesc(rows) ==
    IF rows = {} THEN << >>
    ELSE LET top == CHOOSE r \in rows : \A q \in rows : q.id <= r.id
         IN  << top >> \o OrderByIdDesc(rows \ {top})

\* LIMIT n
Limit(seq, n) == SubSeq(seq, 1, Min(n, Len(seq)))

\* SELECT * FROM metrics ORDER BY id DESC LIMIT n
RecentQuery(rows, n) == Limit(OrderByIdDesc(rows), n)

RECURSIVE SumOver(_, _)
SumOver(f, rows) ==
    IF rows = {} THEN 0
    ELSE LET r == CHOOSE x \in rows : TRUE
         IN  f[r] + SumOver(f, rows \ {r})

\* COUNT(*), SUM(CASE ...), AVG(response_time) of one group
GroupCount(g) == SumOver([r \in g |-> 1], g)
GroupSuccesses(g) == SumOver([r \in g |-> IF r.success = 1 THEN 1 ELSE 0], g)
GroupFailures(g) == SumOver([r \in g |-> IF r.success = 0 THEN 1 ELSE 0], g)
GroupAvg_SuccessOnly(g) ==
    [ sum   |-> SumOver([r \in g |-> IF r.success = 1 THEN r.response_time ELSE 0], g),
      count |-> SumOver([r \in g |-> IF r.success = 1 THEN 1 ELSE 0], g) ]
GroupAvg(g) == [ sum   |-> SumOver([r \in g |-> r.response_time], g),
                 count |-> SumOver([r \in g |-> 1], g) ]

\* SELECT endpoint, COUNT(*), SUM(..), SUM(..), AVG(..) FROM metrics GROUP BY endpoint
SummaryQuery(rows) ==
    { LET g == { r \in rows : r.endpoint = e }
      IN  [ endpoint  |-> e,
            total     |-> GroupCount(g),
            successes |-> GroupSuccesses(g),
            failures  |-> GroupFailures(g),
            avg_time  |-> GroupAvg(g) ]
      : e \in { r.endpoint : r \in rows } }

\* --------------------------------------------------------------- initially
\* metrics.db may be absent, or left by an earlier run of the program.
EarlierRow ==
    [ id |-> 1, timestamp |-> 0, endpoint |-> "posts", method |-> "GET",
      response_time |-> 1, status_code |-> 200, success |-> 1,
      error_message |-> NULL ]
EarlierProbe ==
    [ cycle |-> 0, idx |-> 1, returned |-> TRUE, status_code |-> 200, start |-> -1 ]

Init ==
    /\ clock = 0
    /\ mainPc = "init_db"
    /\ \/ tableExists = FALSE /\ metrics_table = << >> /\ probe_log = << >>
       \/ tableExists = TRUE /\ metrics_table = << EarlierRow >>
                             /\ probe_log = << EarlierProbe >>
    /\ monPc = "not_started"
    /\ idx = 1
    /\ cycle = 1
    /\ start = 0
    /\ response = NoResponse
    /\ elapsed = 0
    /\ exc = NULL
    /\ pending = << >>
    /\ dashPc = "idle"
    /\ dash_metrics = << >>
    /\ dash_summary = {}
    /\ page = {}

\* ------------------------------------------------------------------- clock
Alive == mainPc # "exited"

\* Time passes while requests.request is in flight (up to the 5 s timeout); the
\* statements around it are taken as instantaneous.
InProbe == monPc = "request"

Tick ==
    /\ Alive
    /\ InProbe
    /\ clock < MaxClock
    /\ clock' = clock + 1
    /\ UNCHANGED << mainPc, storeVars, monVars, dashVars >>

\* The wall clock is set back (time.time() is not monotonic)
ClockSetBack ==
    /\ Alive
    /\ InProbe
    /\ clock > 0
    /\ clock' \in 0 .. (clock - 1)
    /\ UNCHANGED << mainPc, storeVars, monVars, dashVars >>

\* history entry of the probe that writes a row
ProbeEntry ==
    [ cycle |-> cycle, idx |-> idx, returned |-> response.returned,
      status_code |-> response.status_code, start |-> start ]

\* history entries for the rows that joined the table in a step
Logged(tbl, tbl2) == [ j \in 1 .. (Len(tbl2) - Len(tbl)) |-> ProbeEntry ]

\* The locals of one pass of the for body are dead once the body is left
\* (each is assigned again before it is read): they are cleared here.
ClearLocals ==
    /\ start' = 0
    /\ response' = NoResponse
    /\ elapsed' = 0
    /\ exc' = NULL

\* -------------------------------------------------------------------- main
init_db ==
    /\ mainPc = "init_db"
    /\ metrics_table' = CreateTableIfNotExists(tableExists, metrics_table)
    /\ tableExists' = TRUE
    /\ mainPc' = "start_thread"
    /\ UNCHANGED << clock, probe_log, monVars, dashVars >>

StartThread_BeforeInit ==
    /\ mainPc = "init_db"
    /\ monPc = "not_started"
    /\ monPc' = "loop"
    /\ UNCHANGED << clock, mainPc, storeVars, idx, cycle, start, response, elapsed, exc,
                    pending, dashVars >>

\* threading.Thread(target=monitor_api, daemon=True).start()
StartThread ==
    /\ mainPc = "start_thread"
    /\ monPc' = "loop"
    /\ mainPc' = "signal"
    /\ UNCHANGED << clock, storeVars, idx, cycle, start, response, elapsed, exc,
                    pending, dashVars >>

\* signal.signal(SIGINT, signal_handler); app.run(...)
AppRun ==
    /\ mainPc = "signal"
    /\ mainPc' = "serving"
    /\ UNCHANGED << clock, storeVars, monVars, dashVars >>

\* positions of monitor_api between start = time.time() and the commit of the row
InFlight == {"request", "try_insert", "try_commit", "except_insert", "except_commit"}

DaemonFate_NonDaemon(pc) == pc

\* threading.Thread(target=monitor_api, daemon=True): the thread ends with the
\* process, wherever it is; a probe in flight is abandoned.
DaemonFate(pc) ==
    IF pc \in {"not_started", "dead"} THEN pc
    ELSE IF pc \in InFlight THEN "abandoned" ELSE "killed"

\* SIGINT: sys.exit(0) in the handler (or KeyboardInterrupt before it is
\* installed); the daemon thread and the requests in flight die with the process
signal_handler ==
    /\ Alive
    /\ mainPc' = "exited"
    /\ monPc' = DaemonFate(monPc)
    /\ pending' = << >>
    /\ ClearLocals
    /\ dashPc' = "idle"
    /\ dash_metrics' = << >>
    /\ dash_summary' = {}
    /\ page' = {}
    /\ UNCHANGED << clock, storeVars, idx, cycle >>

\* ------------------------------------------------------------- monitor_api
\* for api in API_ENDPOINTS: ... start = time.time()
StartProbe ==
    /\ monPc = "loop"
    /\ Len(metrics_table) < MaxRows
    /\ start' = clock
    /\ monPc' = "request"
    /\ UNCHANGED << clock, mainPc, storeVars, idx, cycle, response, elapsed, exc,
                    pending, dashVars >>

\* response = requests.request(...); elapsed = time.time() - start
RequestReturns ==
    /\ monPc = "request"
    /\ \E s \in StatusCodes : response' = [returned |-> TRUE, status_code |-> s]
    /\ elapsed' = clock - start
    /\ monPc' = "try_insert"
    /\ UNCHANGED << clock, mainPc, storeVars, idx, cycle, start, exc, pending, dashVars >>

\* requests.request raises; except Exception as e: elapsed = time.time() - start
RequestRaises ==
    /\ monPc = "request"
    /\ \E m \in TransportErrors : exc' = m
    /\ elapsed' = clock - start
    /\ monPc' = "except_insert"
    /\ UNCHANGED << clock, mainPc, storeVars, idx, cycle, start, response, pending,
                    dashVars >>

\* try: log_metric(url, method, elapsed, response.status_code, 1) -- c.execute
TryInsert ==
    /\ monPc = "try_insert"
    /\ pending' = << TryRow >>
    /\ monPc' = "try_commit"
    /\ UNCHANGED << clock, mainPc, storeVars, idx, cycle, start, response, elapsed,
                    exc, dashVars >>

\* ... sqlite3 raises in connect/execute: caught by except Exception as e, which
\* reads the clock again
TryInsertFails ==
    /\ monPc = "try_insert"
    /\ \E m \in StoreErrors : exc' = m
    /\ elapsed' = clock - start
    /\ monPc' = "except_insert"
    /\ UNCHANGED << clock, mainPc, storeVars, idx, cycle, start, response,
                    pending, dashVars >>

\* ... conn.commit(); conn.close(); logging.info: the for body is done
TryCommit ==
    /\ monPc = "try_commit"
    /\ metrics_table' = Commit(metrics_table, pending)
    /\ probe_log' = probe_log \o Logged(metrics_table, metrics_table')
    /\ pending' = << >>
    /\ ClearLocals
    /\ monPc' = "next"
    /\ UNCHANGED << clock, mainPc, tableExists, idx, cycle, dashVars >>

\* ... conn.commit() raises: the transaction is lost, the except branch runs
TryCommitFails ==
    /\ monPc = "try_commit"
    /\ \E m \in StoreErrors : exc' = m
    /\ elapsed' = clock - start
    /\ pending' = << >>
    /\ monPc' = "except_insert"
    /\ UNCHANGED << clock, mainPc, storeVars, idx, cycle, start, response,
                    dashVars >>

\* except: log_metric(url, method, elapsed, -1, 0, str(e)) -- c.execute
ExceptInsert ==
    /\ monPc = "except_insert"
    /\ pending' = << ExceptRow >>
    /\ monPc' = "except_commit"
    /\ UNCHANGED << clock, mainPc, storeVars, idx, cycle, start, response, elapsed,
                    exc, dashVars >>

\* ... sqlite3 raises inside the except branch: nothing catches it, the exception
\* leaves monitor_api and the thread ends
ExceptInsertFails ==
    /\ monPc = "except_insert"
    /\ \E m \in StoreErrors : exc' = m
    /\ monPc' = "dead"
    /\ UNCHANGED << clock, mainPc, storeVars, idx, cycle, start, response,
                    elapsed, pending, dashVars >>

\* ... conn.commit(); conn.close(); logging.error: the for body is done
ExceptCommit ==
    /\ monPc = "except_commit"
    /\ metrics_table' = Commit(metrics_table, pending)
    /\ probe_log' = probe_log \o Logged(metrics_table, metrics_table')
    /\ pending' = << >>
    /\ ClearLocals
    /\ monPc' = "next"
    /\ UNCHANGED << clock, mainPc, tableExists, idx, cycle, dashVars >>

\* ... conn.commit() raises inside the except branch: the thread ends
ExceptCommitFails ==
    /\ monPc = "except_commit"
    /\ \E m \in StoreErrors : exc' = m
    /\ pending' = << >>
    /\ monPc' = "dead"
    /\ UNCHANGED << clock, mainPc, storeVars, idx, cycle, start, response,
                    elapsed, dashVars >>

NextEndpoint_SleepInside ==
    /\ monPc = "next"
    /\ monPc' = "sleep"
    /\ UNCHANGED << clock, mainPc, storeVars, idx, cycle, start, response, elapsed, exc,
                    pending, dashVars >>

\* the for loop takes the next endpoint, or the pass is over
NextEndpoint ==
    /\ monPc = "next"
    /\ IF idx < NumEndpoints
         THEN idx' = idx + 1 /\ monPc' = "loop"
         ELSE idx' = idx /\ monPc' = "sleep"
    /\ UNCHANGED << clock, mainPc, storeVars, cycle, start, response, elapsed, exc,
                    pending, dashVars >>

\* time.sleep(CHECK_INTERVAL) returns; while True starts the next pass
Wake ==
    /\ monPc = "sleep"
    /\ idx' = 1
    /\ cycle' = cycle + 1
    /\ monPc' = "loop"
    /\ UNCHANGED << clock, mainPc, storeVars, start, response, elapsed, exc, pending,
                    dashVars >>

\* ---------------------------------------------------------------- template
\* {% set error_rate = (row['failures'] / row['total'] * 100) if row['total'] > 0 else 0 %}
\* The quotient is kept as a fraction num / den.
ErrorRate(row) ==
    IF row.total > 0
    THEN [num |-> row.failures * PERCENT, den |-> row.total]
    ELSE [num |-> 0, den |-> 1]

Health_AtThreshold(row) ==
    IF ErrorRate(row).num >= UNSTABLE_THRESHOLD * ErrorRate(row).den
    THEN "unstable" ELSE "healthy"

\* {% if error_rate > 20 %} Unstable {% else %} Healthy {% endif %}
Health(row) ==
    IF ErrorRate(row).num > UNSTABLE_THRESHOLD * ErrorRate(row).den
    THEN "unstable" ELSE "healthy"

\* {% for row in summary %} <tr> endpoint, total, successes, failures, ..., status
RenderSummary(summary) ==
    { [endpoint |-> row.endpoint, total |-> row.total, successes |-> row.successes,
       failures |-> row.failures, status |-> Health(row)] : row \in summary }

\* --------------------------------------------------------------- dashboard
\* metrics = db.execute('SELECT * FROM metrics ORDER BY id DESC LIMIT 50').fetchall()
DashRecent ==
    /\ mainPc = "serving"
    /\ dashPc = "idle"
    /\ dash_metrics' = RecentQuery(VisibleRows, RECENT_LIMIT)
    /\ dashPc' = "summary"
    /\ page' = {}
    /\ UNCHANGED << clock, mainPc, storeVars, monVars, dash_summary >>

\* summary = db.execute('SELECT endpoint, COUNT(*) ... GROUP BY endpoint').fetchall()
DashSummary ==
    /\ mainPc = "serving"
    /\ dashPc = "summary"
    /\ dash_summary' = SummaryQuery(VisibleRows)
    /\ dashPc' = "render"
    /\ UNCHANGED << clock, mainPc, storeVars, monVars, dash_metrics, page >>

\* return render_template_string(...); close_db
DashRender ==
    /\ mainPc = "serving"
    /\ dashPc = "render"
    /\ page' = RenderSummary(dash_summary)
    /\ dashPc' = "idle"
    /\ dash_metrics' = << >>
    /\ dash_summary' = {}
    /\ UNCHANGED << clock, mainPc, storeVars, monVars >>

\* ---------------------------------------------------------- specification
Next ==
    \/ Tick
    \/ ClockSetBack
    \/ init_db
    \/ StartThread
    \/ AppRun
    \/ signal_handler
    \/ StartProbe
    \/ RequestReturns
    \/ RequestRaises
    \/ TryInsert
    \/ TryInsertFails
    \/ TryCommit
    \/ TryCommitFails
    \/ ExceptInsert
    \/ ExceptInsertFails
    \/ ExceptCommit
    \/ ExceptCommitFails
    \/ NextEndpoint
    \/ Wake
    \/ DashRecent
    \/ DashSummary
    \/ DashRender

Spec == Init /\ [][Next]_vars

\* ------------------------------------------- the dashboard over an old store
\* metrics.db as earlier runs left it: t checks of one endpoint, f of them failed
EarlierTable(t, f) ==
    [ i \in 1 .. t |->
        [ id |-> i, timestamp |-> 0, endpoint |-> "posts", method |-> "GET",
          response_time |-> 1,
          status_code |-> IF i <= f THEN FAIL_STATUS ELSE 200,
          success |-> IF i <= f THEN FAILURE ELSE SUCCESS,
          error_message |-> IF i <= f THEN "timed out" ELSE NULL ] ]
EarlierLog(t, f) ==
    [ i \in 1 .. t |->
        [ cycle |-> 0, idx |-> 1, returned |-> i > f,
          status_code |-> IF i <= f THEN 0 ELSE 200, start |-> -1 ] ]

\* The server is up over such a store; the monitor thread has died in its first
\* probe (ExceptInsertFails) and only dashboard() runs.
InitDash ==
    /\ clock = 0
    /\ mainPc = "serving"
    /\ \E t \in 0 .. MaxTotal : \E f \in 0 .. t :
         /\ metrics_table = EarlierTable(t, f)
         /\ probe_log = EarlierLog(t, f)
    /\ tableExists = TRUE
    /\ monPc = "dead"
    /\ idx = 1
    /\ cycle = 1
    /\ start = 0
    /\ response = NoResponse
    /\ elapsed = 0
    /\ exc = NULL
    /\ pending = << >>
    /\ dashPc = "idle"
    /\ dash_metrics = << >>
    /\ dash_summary = {}
    /\ page = {}

NextDash ==
    \/ DashRecent
    \/ DashSummary
    \/ DashRender

SpecDash == InitDash /\ [][NextDash]_vars

\* ================================================================== claims
\* Rows written by the probe of endpoint i in pass c of the while loop
RowsOfProbe(c, i) ==
    { k \in DOMAIN probe_log : probe_log[k].cycle = c /\ probe_log[k].idx = i }

\* The for body of probe (c, i) has been left normally
Finished(c, i) ==
    \/ c < cycle
    \/ c = cycle /\ i < idx
    \/ c = cycle /\ i = idx /\ monPc \in {"next", "sleep"}

\* C1: every probe whose for body ran to its end has exactly one row in the
\* table, whether the request returned or raised; no probe ever has two rows.
C1_OneRecordPerProbe ==
    /\ Len(probe_log) = Len(metrics_table)
    /\ \A c \in 1 .. cycle : \A i \in 1 .. NumEndpoints :
         /\ Cardinality(RowsOfProbe(c, i)) <= 1
         /\ Finished(c, i) => Cardinality(RowsOfProbe(c, i)) = 1

\* two probes of this run are over, one whose request returned, one whose
\* request raised
C1_Witness ==
    /\ \E k \in DOMAIN probe_log :
         probe_log[k].cycle >= 1 /\ probe_log[k].returned /\ Finished(probe_log[k].cycle, probe_log[k].idx)
    /\ \E k \in DOMAIN probe_log :
         probe_log[k].cycle >= 1 /\ ~probe_log[k].returned /\ Finished(probe_log[k].cycle, probe_log[k].idx)

\* C2 (as claimed): the row of a probe whose request returned a response has
\* success = 1, the received status code and no error message; a row has
\* success = 1 exactly when the request of its probe returned.
C2_SuccessIffReturned ==
    \A k \in DOMAIN metrics_table :
        /\ probe_log[k].returned =>
             /\ metrics_table[k].success = 1
             /\ metrics_table[k].status_code = probe_log[k].status_code
             /\ metrics_table[k].error_message = NULL
        /\ metrics_table[k].success = 1 <=> probe_log[k].returned

StoreWriteFails ==
    TryInsertFails \/ TryCommitFails \/ ExceptInsertFails \/ ExceptCommitFails

\* C4 (as claimed): a failed write never ends monitor_api: after a step in
\* which log_metric raises, the loop is still running.
C4_FailedWriteContained == [][StoreWriteFails => monPc' # "dead"]_vars

\* The request of endpoint a raised in the current pass
TransportFailed(a) ==
    \/ \E k \in RowsOfProbe(cycle, a) : ~probe_log[k].returned
    \/ a = idx /\ monPc \in {"except_insert", "except_commit", "dead"}
              /\ ~response.returned

\* C5 (as claimed): when the request of endpoint a raises, the loop does not
\* end before the endpoints after a are handled, and each endpoint b after a
\* whose for body is over has exactly one row of this pass.
C5_Isolation ==
    \A a \in 1 .. NumEndpoints - 1 :
        TransportFailed(a) =>
            /\ monPc # "dead"
            /\ \A b \in (a + 1) .. NumEndpoints :
                 Finished(cycle, b) => Cardinality(RowsOfProbe(cycle, b)) = 1

\* C6 (as claimed): the loop has no internal exit: monitor_api never ends on its
\* own (only the process being shut down stops it).
C6_NoInternalExit == monPc # "dead"

\* newest-first suffix of the table, at most n rows long
NewestFirst(tbl, n) ==
    [ j \in 1 .. Min(n, Len(tbl)) |-> tbl[Len(tbl) - j + 1] ]

\* C7: for each limit n among 0, 1, 2, k and RECENT_LIMIT the recent query
\* returns the Min(n, k) most recently inserted of the k rows, newest insertion
\* first; the dashboard's list has at most RECENT_LIMIT rows and is such a list.
C7_RecentNewestFirst ==
    /\ \A n \in {0, 1, 2, Len(metrics_table), RECENT_LIMIT} :
         RecentQuery(VisibleRows, n) = NewestFirst(metrics_table, n)
    /\ dashPc \in {"summary", "render"} =>
         /\ Len(dash_metrics) <= RECENT_LIMIT
         /\ \A j \in 1 .. Len(dash_metrics) :
              dash_metrics[j] = metrics_table[Len(dash_metrics) - j + 1]

\* the dashboard holds a list of three rows, and a limit of 2 would cut it
C7_Witness ==
    /\ dashPc = "summary"
    /\ Len(dash_metrics) = 3
    /\ dash_metrics[1].id > dash_metrics[3].id
    /\ Len(RecentQuery(VisibleRows, 2)) = 2

RECURSIVE TimeOf(_, _, _)
\* sum of response_time over rows 1..k of tbl with endpoint url
TimeOf(tbl, url, k) ==
    IF k = 0 THEN 0
    ELSE TimeOf(tbl, url, k - 1)
           + (IF tbl[k].endpoint = url THEN tbl[k].response_time ELSE 0)

\* C8: the summary has one row per endpoint URL in the table; its total is the
\* number of rows with that URL, successes those with success = 1, failures
\* those with success = 0, successes + failures = total, and avg_time is the sum
\* of response_time over all of them (failed probes included) divided by total.
C8_SummaryCounts ==
    LET summary == SummaryQuery(VisibleRows)
        of(url) == { k \in DOMAIN metrics_table : metrics_table[k].endpoint = url }
    IN  /\ { s.endpoint : s \in summary } = { r.endpoint : r \in VisibleRows }
        /\ \A s \in summary :
             /\ \A t \in summary : t.endpoint = s.endpoint => t = s
             /\ s.total = Cardinality(of(s.endpoint))
             /\ s.successes =
                  Cardinality({ k \in of(s.endpoint) : metrics_table[k].success = 1 })
             /\ s.failures =
                  Cardinality({ k \in of(s.endpoint) : metrics_table[k].success = 0 })
             /\ s.successes + s.failures = s.total
             /\ s.avg_time.count = s.total
             /\ s.avg_time.sum = TimeOf(metrics_table, s.endpoint, Len(metrics_table))

\* the dashboard's summary has an endpoint with a success and a failure whose
\* response times differ
C8_Witness ==
    /\ dashPc = "render"
    /\ \E s \in dash_summary :
         /\ s.successes >= 1
         /\ s.failures >= 1
         /\ s.avg_time.sum # 0
         /\ \E r \in VisibleRows :
              r.endpoint = s.endpoint /\ r.success = 0 /\ r.response_time # 0

\* C9: the table only grows at its end: in every step the old table is a prefix
\* of the new one, and each new row has an id above every id before it.
C9_AppendOnly ==
    [][ /\ Len(metrics_table') >= Len(metrics_table)
        /\ SubSeq(metrics_table', 1, Len(metrics_table)) = metrics_table
        /\ \A j \in (Len(metrics_table) + 1) .. Len(metrics_table') :
             \A k \in 1 .. (j - 1) : metrics_table'[k].id < metrics_table'[j].id
      ]_vars

\* init_db ran on a populated table, log_metric appended to it and the
\* dashboard has run both queries
C9_Witness ==
    /\ Len(metrics_table) >= 3
    /\ metrics_table[1] = EarlierRow
    /\ dashPc = "render"

Prefix(tbl, k) == SubSeq(tbl, 1, k)

\* C10: what a dashboard query returned is the answer on a prefix of the
\* insertion sequence: every row of it is a whole committed row, and no row
\* that is still uncommitted shows in it.
C10_ConsistentPrefix ==
    /\ dashPc \in {"summary", "render"} =>
         \E k \in 0 .. Len(metrics_table) :
             dash_metrics = NewestFirst(Prefix(metrics_table, k), RECENT_LIMIT)
    /\ dashPc = "render" =>
         \E k \in 0 .. Len(metrics_table) :
             dash_summary = SummaryQuery(RowsOf(Prefix(metrics_table, k)))
    /\ \A j \in DOMAIN pending :
         /\ pending[j] \notin RowsOf(metrics_table)
         /\ pending[j] \notin RowsOf(dash_metrics)

\* both queries ran while log_metric held an uncommitted row
C10_Witness ==
    /\ dashPc = "render"
    /\ pending # << >>
    /\ dash_metrics # << >>
    /\ dash_summary # {}

\* C11 (as claimed): the timestamp of a row is the instant at which its check
\* started, the clock read before the request was issued.
C11_TimestampIsCheckStart ==
    \A k \in DOMAIN metrics_table :
        probe_log[k].cycle >= 1 => metrics_table[k].timestamp = probe_log[k].start

\* C11 (amended): the timestamp of a row is the clock read inside log_metric,
\* when the INSERT runs after the request has returned or raised; the row
\* that is committed is that row.
C11_TimestampAtInsert ==
    [][ /\ (pending' # pending /\ pending' # << >>) =>
             /\ monPc \in {"try_insert", "except_insert"}
             /\ Len(pending') = 1
             /\ pending'[1].timestamp = clock
        /\ Len(metrics_table') > Len(metrics_table) =>
             /\ Len(pending) = 1
             /\ metrics_table'[Len(metrics_table')] = pending[1]
      ]_vars

\* a row of this run is in the table whose timestamp is later than the start of
\* its check
C11_Witness ==
    \E k \in DOMAIN metrics_table :
        /\ probe_log[k].cycle >= 1
        /\ metrics_table[k].timestamp > probe_log[k].start

\* C12: init_db leaves the rows of the table as they are and the table present;
\* on every store the program reaches, running CREATE TABLE IF NOT EXISTS once
\* or twice more keeps exactly the rows that are there.
C12_InitDbIdempotent ==
    [][ /\ init_db => (metrics_table' = metrics_table /\ tableExists')
        /\ LET once == CreateTableIfNotExists(tableExists', metrics_table')
               twice == CreateTableIfNotExists(TRUE, once)
           IN  once = metrics_table' /\ twice = metrics_table'
      ]_vars

\* init_db has just run on a table that held a row
C12_Witness ==
    /\ mainPc = "start_thread"
    /\ tableExists
    /\ metrics_table = << EarlierRow >>

\* C13 (as claimed): every stored row has response_time >= 0, whatever the wall
\* clock does between the two reads of time.time().
C13_ResponseTimeNonNegative ==
    \A k \in DOMAIN metrics_table : metrics_table[k].response_time >= 0

\* probe (c, i) comes before probe (d, j) in the order of passes and endpoints
Before(c, i, d, j) == c < d \/ (c = d /\ i < j)

\* The rows of this run lie in the table in the order of passes and, within a
\* pass, of API_ENDPOINTS; each is the row of the endpoint at its index; every
\* probe before the current one has its row and no later probe has one; a row
\* being inserted is the current endpoint's.
Sequential ==
    /\ \A j, k \in DOMAIN probe_log :
         (j < k /\ probe_log[j].cycle >= 1) =>
             Before(probe_log[j].cycle, probe_log[j].idx,
                    probe_log[k].cycle, probe_log[k].idx)
    /\ \A k \in DOMAIN probe_log :
         probe_log[k].cycle >= 1 =>
             /\ metrics_table[k].endpoint = API_ENDPOINTS[probe_log[k].idx].url
             /\ ~Before(cycle, idx, probe_log[k].cycle, probe_log[k].idx)
    /\ \A c \in 1 .. cycle : \A i \in 1 .. NumEndpoints :
         Before(c, i, cycle, idx) => RowsOfProbe(c, i) # {}
    /\ \A j \in DOMAIN pending : pending[j].endpoint = API_ENDPOINTS[idx].url

\* the sleep is reached only with the whole pass done
SleepAfterFullPass ==
    monPc = "sleep" => \A i \in 1 .. NumEndpoints : RowsOfProbe(cycle, i) # {}

\* C14: endpoints are handled one at a time in configured order, the rows of a
\* pass are inserted in that order, the sleep comes only after the full pass
\* and the next pass starts only out of that sleep.
C14_SequentialInOrder ==
    [][ /\ Sequential'
        /\ SleepAfterFullPass'
        /\ (monPc' = "request" /\ monPc # "request") => (monPc = "loop" /\ pending = << >>)
        /\ (monPc' = "sleep" /\ monPc # "sleep") => idx = NumEndpoints
        /\ cycle' # cycle =>
             (monPc = "sleep" /\ monPc' = "loop" /\ cycle' = cycle + 1 /\ idx' = 1)
      ]_vars

\* a full pass over the three endpoints was recorded in order, the sleep is over
\* and the second pass has begun
C14_Witness ==
    /\ cycle = 2
    /\ monPc = "loop"
    /\ \A i \in 1 .. NumEndpoints : RowsOfProbe(1, i) # {}

\* C15: in the rendered page an endpoint is unstable exactly when
\* 100 * failures > 20 * total over its stored rows, healthy otherwise; with
\* exactly 20% failures it is healthy.
C15_UnstableIffOverTwentyPercent ==
    /\ page # {} => { r.endpoint : r \in page } = { r.endpoint : r \in VisibleRows }
    /\ \A r \in page :
         LET g == { m \in VisibleRows : m.endpoint = r.endpoint }
             failed == Cardinality({ m \in g : m.success = 0 })
             all == Cardinality(g)
         IN  /\ r.total = all
             /\ r.failures = failed
             /\ r.status \in {"unstable", "healthy"}
             /\ r.status = "unstable" <=> 5 * failed > all
             /\ 5 * failed = all => r.status = "healthy"

\* a page over a store with exactly one failure in five checks, shown healthy
C15_Witness ==
    \E r \in page : r.total = 5 /\ r.failures = 1 /\ r.status = "healthy"

\* C16: once the interrupt has been handled and the process has exited, no
\* probe starts and no row joins the store; the probe in flight at the exit
\* ends there and its uncommitted row is lost.
C16_NoProbeAfterShutdown ==
    [][ /\ mainPc = "exited" =>
             /\ mainPc' = "exited"
             /\ metrics_table' = metrics_table
             /\ pending' = pending
             /\ monPc' = monPc
             /\ << idx', cycle' >> = << idx, cycle >>
        /\ (mainPc # "exited" /\ mainPc' = "exited") =>
             /\ metrics_table' = metrics_table
             /\ pending' = << >>
             /\ monPc' \notin InFlight \cup {"loop", "next", "sleep"}
             /\ monPc \in InFlight => monPc' = "abandoned"
      ]_vars

\* the process has exited while a probe was in flight: that probe has no row
C16_Witness ==
    /\ mainPc = "exited"
    /\ monPc = "abandoned"
    /\ RowsOfProbe(cycle, idx) = {}

\* C17 (as claimed): the recent list and the summary of one response are the
\* answers on one and the same state of the store, so summary totals that sum
\* to at most 50 sum to the length of the recent list.
C17_SameStoreState ==
    dashPc = "render" =>
        /\ \E k \in 0 .. Len(metrics_table) :
             /\ dash_metrics = NewestFirst(Prefix(metrics_table, k), RECENT_LIMIT)
             /\ dash_summary = SummaryQuery(RowsOf(Prefix(metrics_table, k)))
        /\ LET totals == SumOver([r \in dash_summary |-> r.total], dash_summary)
           IN  totals <= RECENT_LIMIT => Len(dash_metrics) = totals

\* C17 (amended): the two queries are separate reads; the summary is the answer
\* on the state the recent list was read from or on a later one, so every row of
\* the recent list is counted in the summary, which may count rows appended in
\* between as well.
C17_SummaryNotOlderThanRecent ==
    dashPc = "render" =>
        /\ \E j \in 0 .. Len(metrics_table) : \E k \in j .. Len(metrics_table) :
             /\ dash_metrics = NewestFirst(Prefix(metrics_table, j), RECENT_LIMIT)
             /\ dash_summary = SummaryQuery(RowsOf(Prefix(metrics_table, k)))
        /\ \A e \in { r.endpoint : r \in RowsOf(dash_metrics) } :
             \E r \in dash_summary :
                 /\ r.endpoint = e
                 /\ r.total >= Cardinality({ m \in RowsOf(dash_metrics) : m.endpoint = e })

\* a row was committed between the two queries of one request: the summary
\* counts one row more than the recent list holds
C17_Witness ==
    /\ dashPc = "render"
    /\ SumOver([r \in dash_summary |-> r.total], dash_summary) = Len(dash_metrics) + 1

\* C18: init_db has completed before the monitor thread exists and before the
\* server answers: no INSERT, commit or SELECT runs against a store without
\* the metrics table.
C18_InitBeforeUse ==
    /\ monPc # "not_started" => (mainPc # "init_db" /\ tableExists)
    /\ pending # << >> => tableExists
    /\ (\E k \in DOMAIN probe_log : probe_log[k].cycle >= 1) => tableExists
    /\ (dashPc # "idle" \/ page # {}) => (mainPc = "serving" /\ tableExists)
    /\ mainPc \in {"start_thread", "signal", "serving"} => tableExists

\* the program started without metrics.db; its first probe has its row and a
\* dashboard request has read it
C18_Witness ==
    /\ metrics_table # << >>
    /\ probe_log[1].cycle = 1
    /\ dashPc = "render"
    /\ dash_metrics # << >>

====
